---- MODULE Spec2Model ----
(***************************************************************************)
(* The bloom-index read path of query/src/storages/fuse/io/read/           *)
(* bloom_index_reader.rs: load_bloom_filter_by_columns, read_index_meta,   *)
(* load_column_bytes, load_index_meta and load_data, run by concurrent     *)
(* requests against the two shared caches (file metadata, column bytes).   *)
(*                                                                         *)
(* A request is one future.  Its poll runs read_index_meta and then        *)
(* try_join_all over one load_column_bytes future per requested column,    *)
(* polled in request order; a poll round is modelled child by child (the   *)
(* cursor), so that other requests and storage completions interleave      *)
(* between two child polls.  Storage is asynchronous: a read either        *)
(* completes within the poll that issued it or stays pending until the     *)
(* environment completes it, and in both cases it succeeds or fails.       *)
(***************************************************************************)
EXTENDS Integers, Sequences, FiniteSets, TLC

(***************************************************************************)
(* Bounds of the model.                                                    *)
(***************************************************************************)
NumReq == 2        \* request slots that run concurrently
MaxCalls == 2      \* calls in one behaviour, drawn from all of Calls
MaxRepeat == 3     \* calls in one behaviour, drawn from RepeatCalls
ByteCap == 2       \* configured capacity of the byte cache (entries)
MetaCap == 1       \* configured capacity of the metadata cache (entries)
MaxCols == 3       \* longest list of requested columns
MaxKeyIdx == 11    \* largest column ordinal of the cache keys compared
MaxArray == 2      \* longest column handed to the integer division

Lz4Raw == 7        \* the codec tag the decode pipeline assumes

R == 1..NumReq
None == <<>>
NoBytes == <<>>

(***************************************************************************)
(* The storage objects: their bytes, and the footer each one carries.      *)
(* A column chunk starts with the codec tag of its pages.                  *)
(***************************************************************************)
Chunk(name, offset, len) ==
    [name |-> name, data_page_offset |-> offset, total_compressed_size |-> len]

ObjectBytes(path) ==
    CASE path = "p" -> <<7, 11, 12,  7, 21, 22,  7, 31, 32,  0, 41, 42>>
      [] path = "q" -> <<7, 51, 52,  7, 61, 62,  7, 71, 72,  7, 81, 82>>

Footer(path) ==
    CASE path = "p" ->
           [row_groups |-> <<
              [num_rows |-> 2,
               columns |-> <<Chunk("a", 0, 3), Chunk("b", 3, 3),
                             Chunk("c", 6, 3), Chunk("d", 9, 3)>>] >>]
      [] path = "q" ->
           [row_groups |-> <<
              [num_rows |-> 2,
               columns |-> <<Chunk("a", 0, 3), Chunk("b", 3, 3)>>],
              [num_rows |-> 1,
               columns |-> <<Chunk("a", 6, 3), Chunk("b", 9, 3)>>] >>]

(***************************************************************************)
(* The calls the callers make: a path and the requested column names.      *)
(***************************************************************************)
Calls ==
    { c \in { [path |-> "p", cols |-> <<"c", "a">>],
               [path |-> "p", cols |-> <<"b">>],
               [path |-> "p", cols |-> <<"a", "zz", "yy">>],
               [path |-> "p", cols |-> <<"d">>],
               [path |-> "q", cols |-> <<"a">>] } : Len(c.cols) <= MaxCols }

\* the calls that are repeated against a cache smaller than their columns
RepeatCalls ==
    { [path |-> "p", cols |-> <<"c", "a">>],
      [path |-> "p", cols |-> <<"b">>] }

\* what the callers of one behaviour do: which calls, how many, and
\* whether they abandon calls that have not returned
Workloads ==
    { [calls |-> Calls, max |-> MaxCalls, abandon |-> TRUE],
      [calls |-> RepeatCalls, max |-> MaxRepeat, abandon |-> FALSE] }

(***************************************************************************)
(* Errors.                                                                 *)
(***************************************************************************)
NoSuchColumn(col_name) ==
    [code |-> "LogicalError", msg |-> "no such column " \o col_name]
StorageError == [code |-> "StorageError", msg |-> "read failed"]
DecodeError == [code |-> "ParquetError", msg |-> "decode failed"]
NoChunkError == [code |-> "ParquetError", msg |-> "fail to get a chunk"]

(***************************************************************************)
(* The cache collaborator: a bounded map with least-recently-used          *)
(* eviction, kept as a sequence of entries, least recently used first.     *)
(***************************************************************************)
CacheKeys(c) == {c[i].k : i \in 1..Len(c)}
CacheHas(c, k) == k \in CacheKeys(c)
CachePos(c, k) == CHOOSE i \in 1..Len(c) : c[i].k = k
CacheVal(c, k) == c[CachePos(c, k)].v
CacheDrop(c, k) == SelectSeq(c, LAMBDA e : e.k # k)

\* get: on a hit the entry becomes the most recently used
CacheGet(c, k) ==
    IF CacheHas(c, k)
    THEN Append(CacheDrop(c, k), [k |-> k, v |-> CacheVal(c, k)])
    ELSE c

\* put: inserts or replaces as most recently used, then evicts from the
\* least recently used end while the capacity is exceeded
CachePut(c, k, v, cap) ==
    LET ins == Append(CacheDrop(c, k), [k |-> k, v |-> v])
    IN  IF Len(ins) > cap THEN SubSeq(ins, Len(ins) - cap + 1, Len(ins)) ELSE ins

(***************************************************************************)
(* The write lock of a cache (an async RwLock taken with write()):         *)
(* one holder, waiters served first-in first-out, the lock handed to the   *)
(* first waiter at release.                                                *)
(***************************************************************************)
FreeLock == [holder |-> None, queue |-> <<>>]
\* mutant: read() instead of write(): the guard is granted at once,
\* whoever holds one
LockAcquireShared(l, who) == [l EXCEPT !.holder = who]

LockAcquire(l, who) ==
    IF l.holder = None
    THEN [holder |-> who, queue |-> <<>>]
    ELSE [l EXCEPT !.queue = Append(@, who)]
LockRelease(l) ==
    IF l.queue = <<>>
    THEN FreeLock
    ELSE [holder |-> Head(l.queue), queue |-> Tail(l.queue)]
\* dropping a future that waits for or holds the lock
LockDrop(l, who) ==
    IF l.holder = who
    THEN LockRelease(l)
    ELSE [l EXCEPT !.queue = SelectSeq(@, LAMBDA w : w # who)]

(***************************************************************************)
(* Pure steps of the reader.                                               *)
(***************************************************************************)

\* mutant: unwrap_or(first column) instead of the missing-column error
FindColumnOrFirst(file_meta, col_name) ==
    LET cols == file_meta.row_groups[1].columns
        hits == {i \in 1..Len(cols) : cols[i].name = col_name}
    IN  IF hits = {} THEN <<0>>
        ELSE << (CHOOSE i \in hits : \A j \in hits : i <= j) - 1 >>

\* load_column_bytes: the ordinal (counted from 0) of the first column chunk
\* of row group 0 whose path_in_schema[0] is col_name, as an option:
\* <<idx>>, or <<>> when there is none
FindColumn(file_meta, col_name) ==
    LET cols == file_meta.row_groups[1].columns
        hits == {i \in 1..Len(cols) : cols[i].name = col_name}
    IN  IF hits = {} THEN <<>>
        ELSE << (CHOOSE i \in hits : \A j \in hits : i <= j) - 1 >>

ColMeta(file_meta, idx) == file_meta.row_groups[1].columns[idx + 1]

\* mutant: the key leaves the ordinal out
KeyWithoutOrdinal(path, idx) == path \o "-"

\* mutant: the key has no separator between path and ordinal
KeyWithoutSeparator(path, idx) == path \o ToString(idx)

\* format!("{path}-{idx}")
ByteCacheKey(path, idx) == path \o "-" \o ToString(idx)

\* format!("{path}-bf")
MetaCacheKey(path) == path \o "-bf"

\* mutant: the range starts at 0 instead of chunk_offset
LoadDataFromStart(col_meta, path) ==
    SubSeq(ObjectBytes(path), 1, col_meta.total_compressed_size)

\* load_data: range_read(chunk_offset .. chunk_offset + col_len)
LoadData(col_meta, path) ==
    SubSeq(ObjectBytes(path),
           col_meta.data_page_offset + 1,
           col_meta.data_page_offset + col_meta.total_compressed_size)

\* the page reader and decompressor over one column's bytes: the codec is
\* fixed to Lz4Raw, whatever the chunk was written with
DecodeErr == <<"decode error">>
Decode(bytes, num_values) ==
    IF bytes = <<>> \/ bytes[1] # Lz4Raw \/ Len(bytes) - 1 < num_values
    THEN DecodeErr
    ELSE [i \in 1..num_values |-> ToString(bytes[i + 1])]

NoBlock == [names |-> <<>>, types |-> <<>>, data |-> <<>>, rows |-> 0]
NoError == [code |-> "", msg |-> ""]
NoResult == [kind |-> "none", block |-> NoBlock, err |-> NoError]
Ok(block) == [kind |-> "block", block |-> block, err |-> NoError]
Err(e) == [kind |-> "err", block |-> NoBlock, err |-> e]

\* mutant: results collected in completion order
JoinByCompletion(n, completion) == [i \in 1..n |-> completion[i]]

\* the order in which try_join_all hands the per-column results on
JoinOrder(n, completion) == [i \in 1..n |-> i]

\* mutant: the schema has a field for the first requested column only
SchemaOfFirst(columns) ==
    [i \in 1..(IF columns = <<>> THEN 0 ELSE 1) |->
        [name |-> columns[i], type |-> "Vu8"]]

\* lines 50-55: one field per requested column, in request order, each of
\* the byte-string type Vu8
Schema(columns) ==
    [i \in 1..Len(columns) |-> [name |-> columns[i], type |-> "Vu8"]]

\* mutant: a column that fails to decode is left out of the block
DecodeBlockPartial(columns, cols_data, file_meta) ==
    LET num_values == file_meta.row_groups[1].num_rows
        good == SelectSeq([i \in 1..Len(cols_data) |-> i],
                          LAMBDA i : Decode(cols_data[i].bytes, num_values)
                                        # DecodeErr)
    IN  Ok([names |-> [k \in 1..Len(good) |-> columns[good[k]]],
            types |-> [k \in 1..Len(good) |-> "Vu8"],
            data |-> [k \in 1..Len(good) |->
                        Decode(cols_data[good[k]].bytes, num_values)],
            rows |-> num_values])

\* lines 63-98: decode every (bytes, col_idx) pair, in the order of
\* cols_data, and zip the arrays with the requested schema
DecodeBlock(columns, cols_data, file_meta) ==
    LET num_values == file_meta.row_groups[1].num_rows
        arrays == [i \in 1..Len(cols_data) |->
                      Decode(cols_data[i].bytes, num_values)]
    IN  IF \E i \in 1..Len(cols_data) : arrays[i] = DecodeErr
        THEN Err(DecodeError)
        ELSE IF num_values = 0
        THEN Err(NoChunkError)
        ELSE LET schema == Schema(columns)
             IN  Ok([names |-> [i \in 1..Len(schema) |-> schema[i].name],
                     types |-> [i \in 1..Len(schema) |-> schema[i].type],
                     data |-> arrays, rows |-> num_values])

(***************************************************************************)
(* scalars/arithmetics/arithmetic_intdiv.rs: ArithmeticIntDiv::arithmetic  *)
(* over its two operand columns.  A column is an array of values or a      *)
(* constant (a value that may not convert to the operand type, and a       *)
(* size).                                                                  *)
(***************************************************************************)
Values == {-3, 0, 1, 2}

NoValue == [ok |-> FALSE, v |-> 0]
Value(v) == [ok |-> TRUE, v |-> v]

Array(values) ==
    [kind |-> "Array", values |-> values, value |-> NoValue, size |-> Len(values)]
Constant(value, size) ==
    [kind |-> "Constant", values |-> <<>>, value |-> value, size |-> size]

DivisionByZero == [code |-> "BadArguments", msg |-> "Division by zero"]

NoColumn == [kind |-> "", values |-> <<>>, value |-> NoValue, size |-> 0]
NoOutcome == [kind |-> "none", column |-> NoColumn, err |-> NoError]
OkColumn(column) == [kind |-> "column", column |-> column, err |-> NoError]
ErrColumn(e) == [kind |-> "err", column |-> NoColumn, err |-> e]

Abs(x) == IF x < 0 THEN -x ELSE x

\* AsPrimitive::<R>::as_(l / r): the quotient as f64, cut towards zero
\* (exact for the values of the model, which f64 represents)
Quotient(l, r) ==
    IF (l < 0) = (r < 0) THEN Abs(l) \div Abs(r) ELSE -(Abs(l) \div Abs(r))

\* mutant: a constant divisor that does not convert is taken as zero
ConstDivisorOrZero(value) == IF value.ok THEN value.v ELSE 0

\* DFTryFrom::try_from(right.clone()).unwrap_or(D::one())
ConstDivisor(value) == IF value.ok THEN value.v ELSE 1

\* DFTryFrom::try_from(left.clone()).unwrap_or(T::default())
ConstDividend(value) == IF value.ok THEN value.v ELSE 0

\* mutant: the divisor is not looked at, and a division by zero yields 0
ArithmeticUnchecked(columns) ==
    LET left == columns[1]
        right == columns[2]
        l(i) == IF left.kind = "Array" THEN left.values[i]
                ELSE ConstDividend(left.value)
        r(i) == IF right.kind = "Array" THEN right.values[i]
                ELSE ConstDivisor(right.value)
        q(i) == IF r(i) = 0 THEN 0 ELSE Quotient(l(i), r(i))
    IN  IF left.kind = "Array" \/ right.kind = "Array"
        THEN OkColumn(Array([i \in 1..(IF left.kind = "Array" THEN left.size
                                        ELSE right.size) |-> q(i)]))
        ELSE OkColumn(Constant(Value(q(1)), left.size))

\* lines 48-102: the four operand shapes
Arithmetic(columns) ==
    LET left == columns[1]
        right == columns[2]
    IN  CASE left.kind = "Array" /\ right.kind = "Array" ->
               IF \E i \in 1..Len(right.values) : right.values[i] = 0
               THEN ErrColumn(DivisionByZero)
               ELSE OkColumn(Array([i \in 1..Len(left.values) |->
                                      Quotient(left.values[i], right.values[i])]))
          [] left.kind = "Array" /\ right.kind = "Constant" ->
               LET r == ConstDivisor(right.value)
               IN  IF r = 0
                   THEN ErrColumn(DivisionByZero)
                   ELSE OkColumn(Array([i \in 1..Len(left.values) |->
                                          Quotient(left.values[i], r)]))
          [] left.kind = "Constant" /\ right.kind = "Array" ->
               LET l == ConstDividend(left.value)
               IN  IF \E i \in 1..Len(right.values) : right.values[i] = 0
                   THEN ErrColumn(DivisionByZero)
                   ELSE OkColumn(Array([i \in 1..Len(right.values) |->
                                          Quotient(l, right.values[i])]))
          [] left.kind = "Constant" /\ right.kind = "Constant" ->
               LET l == ConstDividend(left.value)
                   r == ConstDivisor(right.value)
               IN  IF r = 0
                   THEN ErrColumn(DivisionByZero)
                   ELSE OkColumn(Constant(Value(Quotient(l, r)), left.size))

\* the operand columns of one evaluation: both of the length of the block
Arrays(n) == {Array(a) : a \in [1..n -> Values]}
Constants(n) == {Constant(dv, n) : dv \in {Value(v) : v \in Values} \cup {NoValue}}
Operands ==
    UNION {(Arrays(n) \cup Constants(n)) \X (Arrays(n) \cup Constants(n)) :
              n \in 0..MaxArray}

(***************************************************************************)
(* State.                                                                  *)
(***************************************************************************)
VARIABLES
    cfg,         \* which caches the cache manager hands out: [bytes, meta]
    work,        \* the workload of this behaviour
    byteCache,   \* the byte cache: key -> column chunk bytes
    metaCache,   \* the metadata cache: key -> parsed footer
    byteLock,    \* write lock of the byte cache
    metaLock,    \* write lock of the metadata cache
    rq,          \* per request slot: the load_bloom_filter_by_columns future
    ch,          \* per request slot: its load_column_bytes futures
    calls,       \* calls made so far
    last,        \* the call that returned last, as it ended: [q, cs]
    returned,    \* history: every (path, columns, block) handed to a caller
    firstFetch,  \* history: per (path, ordinal), the bytes of the load that
                 \* first fetched and inserted the entry
    recency,     \* history: the (path, ordinal) pairs loaded through the byte
                 \* cache, least recently accessed first
    hist,        \* history: the entries left by calls that failed or were
                 \* abandoned (orphans, morphans), and the keys whose last
                 \* fetch failed or was dropped (lost, mlost)
    arith        \* the integer division: its operand columns and its result

vars == <<cfg, work, byteCache, metaCache, byteLock, metaLock, rq, ch, calls,
          last, returned, firstFetch, recency, hist, arith>>

SyncOutcomes == {"pending", "ok", "err"}
IoOutcomes == {"ok", "err"}

IdleReq ==
    [pc |-> "idle", path |-> "", cols |-> <<>>, mst |-> "init", mio |-> "none",
     meta |-> <<>>, cursor |-> 0, res |-> NoResult, parses |-> 0,
     metaHit |-> FALSE, order |-> <<>>, peers |-> {}, no |-> 0,
     mbehind |-> FALSE, mbehindOk |-> FALSE,
     morphanHit |-> FALSE, mafterLost |-> FALSE]

NewChild(col_name, path) ==
    [st |-> "init", name |-> col_name, path |-> path, idx |-> <<>>,
     io |-> "none", bytes |-> NoBytes, err |-> NoError,
     reads |-> 0, gets |-> 0, puts |-> 0, hit |-> FALSE,
     behind |-> FALSE, behindOk |-> FALSE, refetch |-> FALSE,
     orphanHit |-> FALSE, afterLost |-> FALSE]

NoHist == [orphans |-> {}, lost |-> {}, morphans |-> {}, mlost |-> {}]

NoArith == [columns |-> <<NoColumn, NoColumn>>, result |-> NoOutcome]

ReaderInit ==
    /\ cfg \in [bytes : BOOLEAN, meta : BOOLEAN]
    /\ work \in Workloads
    /\ byteCache = <<>>
    /\ metaCache = <<>>
    /\ byteLock = FreeLock
    /\ metaLock = FreeLock
    /\ rq = [r \in R |-> IdleReq]
    /\ ch = [r \in R |-> <<>>]
    /\ calls = 0
    /\ last = [q |-> IdleReq, cs |-> <<>>]
    /\ returned = {}
    /\ firstFetch = {}
    /\ recency = <<>>
    /\ hist = NoHist

Init == ReaderInit /\ arith = NoArith

(***************************************************************************)
(* load_column_bytes, one poll of the future c of column c.name.           *)
(* l and cache are the byte cache's lock and content before the poll; the  *)
(* result carries the future, the lock and the cache after it.             *)
(***************************************************************************)

\* mutant: the fetched bytes are returned but never put into the cache
FetchDoneNoPut(c, l, cache, path, col_meta, out) ==
    IF out = "ok"
    THEN [c |-> [c EXCEPT !.st = "ok", !.io = "none",
                          !.bytes = LoadData(col_meta, path)],
          l |-> IF cfg.bytes THEN LockRelease(l) ELSE l,
          cache |-> cache]
    ELSE [c |-> [c EXCEPT !.st = "err", !.io = "none", !.err = StorageError],
          l |-> IF cfg.bytes THEN LockRelease(l) ELSE l,
          cache |-> cache]

\* mutant: a failed read leaves an empty entry in the cache
FetchDonePutOnError(c, l, cache, path, col_meta, out) ==
    LET bytes == IF out = "ok" THEN LoadData(col_meta, path) ELSE NoBytes
        put == IF cfg.bytes
               THEN CachePut(cache, ByteCacheKey(path, c.idx[1]), bytes, ByteCap)
               ELSE cache
    IN  IF out = "ok"
        THEN [c |-> [c EXCEPT !.st = "ok", !.io = "none", !.bytes = bytes,
                              !.puts = IF cfg.bytes THEN @ + 1 ELSE @],
              l |-> IF cfg.bytes THEN LockRelease(l) ELSE l,
              cache |-> put]
        ELSE [c |-> [c EXCEPT !.st = "err", !.io = "none", !.err = StorageError],
              l |-> IF cfg.bytes THEN LockRelease(l) ELSE l,
              cache |-> put]

\* load_data returned (lines 121-124 with the cache, 127-128 without)
FetchDone(c, l, cache, path, col_meta, out) ==
    IF out = "ok"
    THEN LET bytes == LoadData(col_meta, path)
         IN  [c |-> [c EXCEPT !.st = "ok", !.io = "none", !.bytes = bytes,
                              !.puts = IF cfg.bytes THEN @ + 1 ELSE @],
              l |-> IF cfg.bytes THEN LockRelease(l) ELSE l,
              cache |-> IF cfg.bytes
                        THEN CachePut(cache, ByteCacheKey(path, c.idx[1]),
                                      bytes, ByteCap)
                        ELSE cache]
    ELSE [c |-> [c EXCEPT !.st = "err", !.io = "none", !.err = StorageError],
          l |-> IF cfg.bytes THEN LockRelease(l) ELSE l,
          cache |-> cache]

\* load_data(col_meta, dal, path).await
FetchStart(c, l, cache, path, col_meta, sync) ==
    LET c1 == [c EXCEPT !.reads = @ + 1]
    IN  IF sync = "pending"
        THEN [c |-> [c1 EXCEPT !.st = "reading", !.io = "pending"],
              l |-> l, cache |-> cache]
        ELSE FetchDone(c1, l, cache, path, col_meta, sync)

\* mutant: the chunk is read from storage before the cache is looked at
CacheCheckEager(c, l, cache, path, col_meta, sync) ==
    LET key == ByteCacheKey(path, c.idx[1])
        c1 == [c EXCEPT !.gets = @ + 1]
    IN  IF CacheHas(cache, key)
        THEN [c |-> [c1 EXCEPT !.st = "ok", !.bytes = CacheVal(cache, key),
                               !.hit = TRUE, !.reads = @ + 1],
              l |-> LockRelease(l),
              cache |-> CacheGet(cache, key)]
        ELSE FetchStart(c1, l, cache, path, col_meta, sync)

\* lines 117-125, with the write guard held: cache.get, then hit or miss
CacheCheck(c, l, cache, path, col_meta, sync) ==
    LET key == ByteCacheKey(path, c.idx[1])
        c1 == [c EXCEPT !.gets = @ + 1]
    IN  IF CacheHas(cache, key)
        THEN [c |-> [c1 EXCEPT !.st = "ok", !.bytes = CacheVal(cache, key),
                               !.hit = TRUE],
              l |-> LockRelease(l),
              cache |-> CacheGet(cache, key)]
        ELSE FetchStart(c1, l, cache, path, col_meta, sync)

LoadColumnBytes(c, who, path, file_meta, l, cache, sync) ==
    LET same == [c |-> c, l |-> l, cache |-> cache]
    IN  CASE c.st = "init" ->
               LET found == FindColumn(file_meta, c.name)
               IN  IF found = <<>>
                   THEN [c |-> [c EXCEPT !.st = "err",
                                         !.err = NoSuchColumn(c.name)],
                         l |-> l, cache |-> cache]
                   ELSE LET c1 == [c EXCEPT !.idx = found]
                            col_meta == ColMeta(file_meta, found[1])
                        IN  IF ~cfg.bytes
                            THEN FetchStart(c1, l, cache, path, col_meta, sync)
                            ELSE IF l.holder = None
                            THEN CacheCheck(c1, LockAcquire(l, who), cache,
                                            path, col_meta, sync)
                            ELSE [c |-> [c1 EXCEPT !.st = "wait"],
                                  l |-> LockAcquire(l, who), cache |-> cache]
          [] c.st = "wait" ->
               IF l.holder = who
               THEN CacheCheck(c, l, cache, path,
                               ColMeta(file_meta, c.idx[1]), sync)
               ELSE same
          [] c.st = "reading" ->
               IF c.io = "pending"
               THEN same
               ELSE FetchDone(c, l, cache, path,
                              ColMeta(file_meta, c.idx[1]), c.io)
          [] OTHER -> same

(***************************************************************************)
(* read_index_meta, one poll, on the request record q.                     *)
(***************************************************************************)

\* load_index_meta returned (lines 150-152 with the cache, 155-156 without)
ParseDone(q, l, cache, out) ==
    IF out = "ok"
    THEN [q |-> [q EXCEPT !.mst = "ok", !.mio = "none",
                          !.meta = <<Footer(q.path)>>],
          l |-> IF cfg.meta THEN LockRelease(l) ELSE l,
          cache |-> IF cfg.meta
                    THEN CachePut(cache, MetaCacheKey(q.path), Footer(q.path),
                                  MetaCap)
                    ELSE cache]
    ELSE [q |-> [q EXCEPT !.mst = "err", !.mio = "none"],
          l |-> IF cfg.meta THEN LockRelease(l) ELSE l,
          cache |-> cache]

\* load_index_meta(dal, path).await
ParseStart(q, l, cache, sync) ==
    LET q1 == [q EXCEPT !.parses = @ + 1]
    IN  IF sync = "pending"
        THEN [q |-> [q1 EXCEPT !.mst = "reading", !.mio = "pending"],
              l |-> l, cache |-> cache]
        ELSE ParseDone(q1, l, cache, sync)

\* mutant: the footer is parsed before the cache is looked at
MetaCheckEager(q, l, cache, sync) ==
    LET key == MetaCacheKey(q.path)
    IN  IF CacheHas(cache, key)
        THEN [q |-> [q EXCEPT !.mst = "ok", !.meta = <<CacheVal(cache, key)>>,
                              !.metaHit = TRUE, !.parses = @ + 1],
              l |-> LockRelease(l),
              cache |-> CacheGet(cache, key)]
        ELSE ParseStart(q, l, cache, sync)

\* lines 146-153, with the write guard held
MetaCheck(q, l, cache, sync) ==
    LET key == MetaCacheKey(q.path)
    IN  IF CacheHas(cache, key)
        THEN [q |-> [q EXCEPT !.mst = "ok", !.meta = <<CacheVal(cache, key)>>,
                              !.metaHit = TRUE],
              l |-> LockRelease(l),
              cache |-> CacheGet(cache, key)]
        ELSE ParseStart(q, l, cache, sync)

ReadIndexMeta(q, who, l, cache, sync) ==
    LET same == [q |-> q, l |-> l, cache |-> cache]
    IN  CASE q.mst = "init" ->
               IF ~cfg.meta
               THEN ParseStart(q, l, cache, sync)
               ELSE IF l.holder = None
               THEN MetaCheck(q, LockAcquire(l, who), cache, sync)
               ELSE [q |-> [q EXCEPT !.mst = "wait"],
                     l |-> LockAcquire(l, who), cache |-> cache]
          [] q.mst = "wait" ->
               IF l.holder = who THEN MetaCheck(q, l, cache, sync) ELSE same
          [] q.mst = "reading" ->
               IF q.mio = "pending" THEN same
               ELSE ParseDone(q, l, cache, q.mio)
          [] OTHER -> same

(***************************************************************************)
(* load_bloom_filter_by_columns.                                           *)
(***************************************************************************)
Active(q) == q.pc \in {"meta", "cols"}

Conclude(q, res) == [q EXCEPT !.pc = "done", !.cursor = 0, !.res = res]

\* the blocks handed to callers so far, with the call that got them
Record(q, res) ==
    IF res.kind = "block"
    THEN returned \cup {[no |-> q.no, path |-> q.path, cols |-> q.cols,
                          block |-> res.block]}
    ELSE returned

\* mutant: the dropped futures leave the queue, but a write guard one of
\* them holds is never released
DropAllKeepGuard(l, r, n) ==
    [l EXCEPT !.queue = SelectSeq(@, LAMBDA w : w[1] # r)]

\* try_join_all returned an error: the remaining futures are dropped, and
\* with them their place in the lock's queue or their write guard
DropAll(l, r, n) ==
    LET mine(w) == w[1] = r
        q1 == [l EXCEPT !.queue = SelectSeq(@, LAMBDA w : ~mine(w))]
    IN  IF l.holder # None /\ mine(l.holder) THEN LockRelease(q1) ELSE q1

Dropped(cs) ==
    [j \in 1..Len(cs) |->
        IF cs[j].st \in {"ok", "err"} THEN cs[j]
        ELSE [cs[j] EXCEPT !.st = "dropped", !.io = "none"]]

\* mutant: the loads hand out borrows of the cache's entries, not shared
\* owners, and the decode reads what the cache holds by then
AssembleThroughCache(q, cs) ==
    LET n == Len(cs)
        key(j) == ByteCacheKey(q.path, cs[j].idx[1])
        cols_data == [i \in 1..n |->
                         [bytes |-> IF CacheHas(byteCache', key(i))
                                    THEN CacheVal(byteCache', key(i))
                                    ELSE NoBytes,
                          idx |-> cs[i].idx[1]]]
    IN  DecodeBlock(q.cols, cols_data, q.meta[1])

\* lines 61-98: every load returned Ok; decode cols_data in join order
Assemble(q, cs) ==
    LET n == Len(cs)
        from == JoinOrder(n, q.order)
        cols_data == [i \in 1..n |->
                         [bytes |-> cs[from[i]].bytes, idx |-> cs[from[i]].idx[1]]]
    IN  DecodeBlock(q.cols, cols_data, q.meta[1])

\* a caller calls load_bloom_filter_by_columns(ctx, dal, columns, path);
\* the call takes the first free request slot
Start(r, call) ==
    /\ arith' = arith
    /\ ~Active(rq[r])
    /\ \A o \in 1..(r - 1) : Active(rq[o])
    /\ call \in work.calls
    /\ calls < work.max
    /\ calls' = calls + 1
    /\ LET others == {o \in R \ {r} : Active(rq[o]) /\ rq[o].path = call.path}
       IN  rq' = [o \in R |->
                    IF o = r
                    THEN [IdleReq EXCEPT !.pc = "meta", !.path = call.path,
                                         !.cols = call.cols, !.no = calls + 1,
                                         !.peers =
                                            {[no |-> rq[x].no,
                                              cols |-> rq[x].cols] : x \in others}]
                    ELSE IF o \in others
                    THEN [rq[o] EXCEPT !.peers =
                            @ \cup {[no |-> calls + 1, cols |-> call.cols]}]
                    ELSE rq[o]]
    /\ ch' = ch
    /\ UNCHANGED <<cfg, work, byteCache, metaCache, byteLock, metaLock, last,
                   returned, firstFetch, recency, hist>>

\* history kept beside a poll of read_index_meta: a request that queues for
\* the metadata cache behind the parse of its own path is behind; it stays
\* so while the entry is not evicted, and stays behindOk while, moreover,
\* that parse has not failed or been dropped
QueuedMeta(r, q) ==
    LET h == metaLock.holder
        sameKey == rq[h[1]].mst = "reading" /\ rq[h[1]].path = q.path
    IN  IF rq[r].mst = "init" /\ q.mst = "wait"
        THEN [q EXCEPT !.mbehind = sameKey, !.mbehindOk = sameKey]
        ELSE q

MarkMeta(q, evictedKeys, failedPaths) ==
    IF q.mst = "wait"
    THEN LET gone == MetaCacheKey(q.path) \in evictedKeys
             lost == q.path \in failedPaths
         IN  [q EXCEPT !.mbehind = @ /\ ~gone,
                       !.mbehindOk = @ /\ ~gone /\ ~lost]
    ELSE q

\* the request slots after slot r became mine and the metadata cache cache2
MetaStep(r, mine, cache2, failedPaths) ==
    LET evictedKeys == CacheKeys(metaCache) \ CacheKeys(cache2)
    IN  [o \in R |->
           IF o = r THEN mine
           ELSE MarkMeta(rq[o], evictedKeys, failedPaths)]

\* history kept beside a poll of read_index_meta that left the request as
\* q and the cache as cache2, and ended the call with res (NoResult: the
\* call goes on): an entry is an orphan once the call that put it failed,
\* until it is evicted or put again; a path is lost once its parse
\* failed or was dropped, until an entry of it is put
MetaHist(r, q, cache2, res) ==
    LET putNow == cfg.meta /\ q.mst = "ok" /\ ~q.metaHit
        evictedKeys == CacheKeys(metaCache) \ CacheKeys(cache2)
        kept == {x \in hist.morphans : MetaCacheKey(x) \notin evictedKeys}
    IN  [hist EXCEPT
           !.morphans = IF putNow
                        THEN IF res.kind = "err" THEN kept \cup {q.path}
                             ELSE kept \ {q.path}
                        ELSE kept,
           !.mlost = IF putNow THEN @ \ {q.path}
                     ELSE IF cfg.meta /\ q.mst = "err" THEN @ \cup {q.path}
                     ELSE @]

\* whether the cache check of this poll was for an orphan, or for a path
\* that was lost
FlagMeta(r, q) ==
    IF q.metaHit \/ q.parses > rq[r].parses
    THEN [q EXCEPT !.morphanHit = q.path \in hist.morphans,
                   !.mafterLost = q.path \in hist.mlost]
    ELSE q

\* line 47: the request is polled while in read_index_meta(..).await
PollMeta(r, sync) ==
    /\ arith' = arith
    /\ rq[r].pc = "meta"
    /\ \/ rq[r].mst = "init"
       \/ rq[r].mst = "wait" /\ metaLock.holder = <<r>>
       \/ rq[r].mst = "reading" /\ rq[r].mio # "pending"
    /\ \E s \in {ReadIndexMeta(rq[r], <<r>>, metaLock, metaCache, sync)} :
       \E q \in {FlagMeta(r, s.q)} :
        /\ metaLock' = s.l
        /\ metaCache' = s.cache
        /\ CASE q.mst = "ok" ->
                  IF q.cols = <<>>
                  THEN \E res \in {Assemble(q, <<>>)} :
                           /\ rq' = MetaStep(r, IdleReq, s.cache, {})
                           /\ last' = [q |-> Conclude(q, res), cs |-> <<>>]
                           /\ returned' = Record(q, res)
                           /\ ch' = ch
                           /\ hist' = MetaHist(r, q, s.cache, res)
                  ELSE /\ rq' = MetaStep(r, [q EXCEPT !.pc = "cols",
                                                      !.cursor = 1],
                                         s.cache, {})
                       /\ ch' = [ch EXCEPT ![r] =
                                   [i \in 1..Len(q.cols) |->
                                      NewChild(q.cols[i], q.path)]]
                       /\ hist' = MetaHist(r, q, s.cache, NoResult)
                       /\ UNCHANGED <<last, returned>>
             [] q.mst = "err" ->
                  /\ rq' = MetaStep(r, IdleReq, s.cache, {q.path})
                  /\ last' = [q |-> Conclude(q, Err(StorageError)),
                              cs |-> <<>>]
                  /\ hist' = MetaHist(r, q, s.cache, NoResult)
                  /\ UNCHANGED <<ch, returned>>
             [] OTHER ->
                  /\ rq' = MetaStep(r, QueuedMeta(r, q), s.cache, {})
                  /\ hist' = MetaHist(r, q, s.cache, NoResult)
                  /\ UNCHANGED <<ch, last, returned>>
    /\ UNCHANGED <<cfg, work, byteCache, byteLock, calls, firstFetch, recency>>

\* the storage completes the footer read of load_index_meta
MetaIo(r, out) ==
    /\ arith' = arith
    /\ rq[r].pc = "meta"
    /\ rq[r].mst = "reading"
    /\ rq[r].mio = "pending"
    /\ rq' = [rq EXCEPT ![r].mio = out]
    /\ UNCHANGED <<cfg, work, byteCache, metaCache, byteLock, metaLock, ch, calls,
                   last, returned, firstFetch, recency, hist>>

\* a future of a parked request can make progress: its write guard was
\* granted, or its read completed
Pollable(r, j) ==
    \/ ch[r][j].st = "wait" /\ byteLock.holder = <<r, j>>
    \/ ch[r][j].st = "reading" /\ ch[r][j].io # "pending"

\* history kept beside a poll: what the futures that wait for the byte
\* cache's lock were queued behind.  A waiter keeps behind while the entry
\* it waits for is not evicted, and behindOk while, moreover, the read it
\* was queued behind has not failed or been dropped
Mark(c, evictedKeys, failed) ==
    IF c.st = "wait"
    THEN LET gone == ByteCacheKey(c.path, c.idx[1]) \in evictedKeys
             lost == [path |-> c.path, idx |-> c.idx[1]] \in failed
         IN  [c EXCEPT !.behind = @ /\ ~gone,
                       !.behindOk = @ /\ ~gone /\ ~lost]
    ELSE c

\* the (path, ordinal) pairs in the order of their last access: a get that
\* hit, or the put after a fetch
Touch(rec, pair) == Append(SelectSeq(rec, LAMBDA x : x # pair), pair)

TopCap(rec) ==
    IF Len(rec) > ByteCap THEN SubSeq(rec, Len(rec) - ByteCap + 1, Len(rec))
    ELSE rec

InSeq(x, seq) == \E k \in 1..Len(seq) : seq[k] = x

\* history kept beside a step of try_join_all that ended the call with
\* res (NoResult: the call goes on): the entries put by a call that then
\* failed are orphans while they are among the ByteCap latest accessed;
\* the keys in failed are lost until an entry of theirs is put
PutBy(path, cs) ==
    {[path |-> path, idx |-> cs[j].idx[1]] :
        j \in {k \in 1..Len(cs) : cs[k].puts > 0}}

ReadBy(path, cs) ==
    {[path |-> path, idx |-> cs[j].idx[1]] :
        j \in {k \in 1..Len(cs) : cs[k].st = "reading"}}

ByteHist(q, cs, putNow, failed, res, rec) ==
    LET bad == res.kind = "err"
        left == (hist.orphans \ putNow)
                   \cup (IF bad THEN PutBy(q.path, cs) ELSE {})
    IN  IF ~cfg.bytes
        THEN [hist EXCEPT !.morphans =
                 IF bad /\ cfg.meta /\ q.parses > 0
                       /\ CacheHas(metaCache, MetaCacheKey(q.path))
                 THEN @ \cup {q.path} ELSE @]
        ELSE [hist EXCEPT
                !.orphans = {x \in left : InSeq(x, TopCap(rec))},
                !.lost = (@ \ putNow) \cup failed,
                !.morphans =
                   IF bad /\ cfg.meta /\ q.parses > 0
                         /\ CacheHas(metaCache, MetaCacheKey(q.path))
                   THEN @ \cup {q.path} ELSE @]

\* try_join_all after the poll of future i left it as c2, the lock as l2
\* and the cache as cache2: an Err ends the request and drops the other
\* futures; otherwise the round goes on, the request parks, or, with every
\* future done, the block is decoded (lines 61-98)
JoinStep(r, i, c2, l2, cache2) ==
    LET q == rq[r]
        n == Len(ch[r])
        old == ch[r][i]
        pair == [path |-> q.path, idx |-> c2.idx[1]]
        cs == [ch[r] EXCEPT ![i] = c2]
        q1 == IF c2.st = "ok" /\ old.st # "ok"
              THEN [q EXCEPT !.order = Append(@, i)] ELSE q
        rest == {j \in (i + 1)..n : cs[j].st # "ok"}
        inserted == c2.st = "ok" /\ old.st # "ok" /\ ~c2.hit /\ cfg.bytes
        known == \E f \in firstFetch : f.path = q.path /\ f.idx = c2.idx[1]
        evictedKeys == CacheKeys(byteCache) \ CacheKeys(cache2)
        failed == IF c2.st = "err"
                  THEN {[path |-> q.path, idx |-> ch[r][j].idx[1]] :
                           j \in {k \in 1..n : ch[r][k].st = "reading"}}
                  ELSE {}
        marked(mine) ==
            IF evictedKeys = {} /\ failed = {} THEN mine
            ELSE [j \in 1..Len(mine) |-> Mark(mine[j], evictedKeys, failed)]
        others(mine) ==
            [o \in R |-> IF o = r THEN marked(mine) ELSE marked(ch[o])]
        putNow == IF inserted THEN {pair} ELSE {}
        failedNow == IF c2.st # "err" THEN {}
                     ELSE ReadBy(q.path, cs)
                             \cup (IF c2.err = StorageError THEN {pair} ELSE {})
    IN  /\ byteCache' = cache2
        /\ firstFetch' =
              IF inserted /\ ~known
              THEN firstFetch \cup
                     {[path |-> q.path, idx |-> c2.idx[1], bytes |-> c2.bytes]}
              ELSE firstFetch
        /\ recency' =
              IF inserted \/ (c2.hit /\ ~old.hit)
              THEN Touch(recency, pair) ELSE recency
        /\ IF c2.st = "err"
           THEN /\ byteLock' = DropAll(l2, r, n)
                /\ ch' = others(<<>>)
                /\ rq' = [rq EXCEPT ![r] = IdleReq]
                /\ last' = [q |-> Conclude(q1, Err(c2.err)), cs |-> Dropped(cs)]
                /\ returned' = returned
                /\ hist' = ByteHist(q, cs, putNow, failedNow, Err(c2.err),
                                    recency')
           ELSE /\ byteLock' = l2
                /\ IF rest # {}
                   THEN /\ rq' = [rq EXCEPT ![r] =
                                    [q1 EXCEPT !.cursor =
                                       CHOOSE j \in rest : \A k \in rest : j <= k]]
                        /\ ch' = others(cs)
                        /\ hist' = ByteHist(q, cs, putNow, {}, NoResult,
                                            recency')
                        /\ UNCHANGED <<last, returned>>
                   ELSE IF \A j \in 1..n : cs[j].st = "ok"
                   THEN \E res \in {Assemble(q1, cs)} :
                            /\ rq' = [rq EXCEPT ![r] = IdleReq]
                            /\ ch' = others(<<>>)
                            /\ last' = [q |-> Conclude(q1, res), cs |-> cs]
                            /\ returned' = Record(q, res)
                            /\ hist' = ByteHist(q, cs, putNow, {}, res,
                                                recency')
                   ELSE /\ rq' = [rq EXCEPT ![r] = [q1 EXCEPT !.cursor = 0]]
                        /\ ch' = others(cs)
                        /\ hist' = ByteHist(q, cs, putNow, {}, NoResult,
                                            recency')
                        /\ UNCHANGED <<last, returned>>

\* history fields of future i, set beside its poll: whether it was queued
\* behind a read of its own key, and whether its get found a key that had
\* been inserted before and was no longer among the ByteCap latest
Annotate(r, old, c) ==
    LET h == byteLock.holder
        pair == [path |-> c.path, idx |-> c.idx[1]]
        queuedNow == old.st = "init" /\ c.st = "wait"
        sameKey == /\ ch[h[1]][h[2]].st = "reading"
                   /\ ch[h[1]][h[2]].path = c.path
                   /\ ch[h[1]][h[2]].idx = c.idx
    IN  IF queuedNow
        THEN [c EXCEPT !.behind = sameKey, !.behindOk = sameKey]
        ELSE IF c.gets > old.gets
        THEN [c EXCEPT !.refetch = InSeq(pair, recency)
                                   /\ ~InSeq(pair, TopCap(recency)),
                       !.orphanHit = pair \in hist.orphans,
                       !.afterLost = pair \in hist.lost]
        ELSE c

\* lines 57-61: try_join_all polls its unfinished futures in request order,
\* one per step; cursor is the next one of the round (0: the request is
\* parked until one of its futures is woken, and the round starts over)
PollChild(r, sync) ==
    /\ arith' = arith
    /\ rq[r].pc = "cols"
    /\ rq[r].cursor = 0 => \E j \in 1..Len(ch[r]) : Pollable(r, j)
    /\ \E i \in {IF rq[r].cursor = 0
                 THEN CHOOSE j \in 1..Len(ch[r]) :
                        /\ ch[r][j].st # "ok"
                        /\ \A k \in 1..(j - 1) : ch[r][k].st = "ok"
                 ELSE rq[r].cursor} :
         \E s \in {LoadColumnBytes(ch[r][i], <<r, i>>, rq[r].path,
                                   rq[r].meta[1], byteLock, byteCache, sync)} :
           \E c2 \in {Annotate(r, ch[r][i], s.c)} :
              JoinStep(r, i, c2, s.l, s.cache)
    /\ UNCHANGED <<cfg, work, metaCache, metaLock, calls>>

\* the storage completes the range read of load_data
ColIo(r, i, out) ==
    /\ arith' = arith
    /\ rq[r].pc = "cols"
    /\ i \in 1..Len(ch[r])
    /\ ch[r][i].st = "reading"
    /\ ch[r][i].io = "pending"
    /\ ch' = [ch EXCEPT ![r][i].io = out]
    /\ UNCHANGED <<cfg, work, byteCache, metaCache, byteLock, metaLock, rq, calls,
                   last, returned, firstFetch, recency, hist>>

\* the caller drops the future of a call that has not returned: its
\* load_column_bytes futures are dropped with it, and with them their
\* write guard or their place in a lock's queue; no cache is touched, and
\* nothing is returned
Cancel(r) ==
    /\ arith' = arith
    /\ work.abandon
    /\ Active(rq[r])
    /\ LET q == rq[r]
           n == Len(ch[r])
           failed == {[path |-> q.path, idx |-> ch[r][j].idx[1]] :
                         j \in {k \in 1..n : ch[r][k].st = "reading"}}
           failedPaths == IF q.mst = "reading" THEN {q.path} ELSE {}
       IN  /\ metaLock' = DropAll(metaLock, r, 0)
           /\ byteLock' = DropAll(byteLock, r, n)
           /\ rq' = MetaStep(r, IdleReq, metaCache, failedPaths)
           /\ ch' = [o \in R |->
                       IF o = r THEN <<>>
                       ELSE [j \in 1..Len(ch[o]) |->
                               Mark(ch[o][j], {}, failed)]]
           /\ hist' = [ByteHist(q, ch[r], {}, failed, Err(NoError), recency)
                         EXCEPT !.mlost = IF cfg.meta THEN @ \cup failedPaths
                                          ELSE @]
    /\ UNCHANGED <<cfg, work, byteCache, metaCache, calls, last, returned,
                   firstFetch, recency>>

Next ==
    \/ \E r \in R, call \in Calls : Start(r, call)
    \/ \E r \in R, sync \in SyncOutcomes : PollMeta(r, sync)
    \/ \E r \in R, out \in IoOutcomes : MetaIo(r, out)
    \/ \E r \in R, sync \in SyncOutcomes : PollChild(r, sync)
    \/ \E r \in R, i \in 1..MaxCols, out \in IoOutcomes : ColIo(r, i, out)
    \/ \E r \in R : Cancel(r)

Spec == Init /\ [][Next]_vars

\* the executor polls a future that was woken, and every storage operation
\* eventually returns; callers need not call, and need not abandon
Fairness ==
    \A r \in R :
       /\ WF_vars(\E sync \in SyncOutcomes : PollMeta(r, sync))
       /\ WF_vars(\E out \in IoOutcomes : MetaIo(r, out))
       /\ WF_vars(\E sync \in SyncOutcomes : PollChild(r, sync))
       /\ WF_vars(\E i \in 1..MaxCols, out \in IoOutcomes : ColIo(r, i, out))

\* the expression evaluator calls ArithmeticIntDiv::arithmetic(columns)
Evaluate ==
    /\ arith.result = NoOutcome
    /\ arith' = [arith EXCEPT !.result = Arithmetic(arith.columns)]
    /\ UNCHANGED <<cfg, work, byteCache, metaCache, byteLock, metaLock, rq, ch,
                   calls, last, returned, firstFetch, recency, hist>>

ArithInit ==
    /\ ReaderInit
    /\ ~cfg.bytes /\ ~cfg.meta /\ work.abandon
    /\ \E columns \in Operands :
          arith = [columns |-> columns, result |-> NoOutcome]

ArithSpec == ArithInit /\ [][Evaluate]_vars

\* the behaviours of the workload of single calls, under that scheduling
LiveInit == Init /\ work.max = MaxCalls

LiveSpec == LiveInit /\ [][Next]_vars /\ Fairness

(***************************************************************************)
(* What the claims are stated against: the file as it is stored, read      *)
(* without the reader.                                                     *)
(***************************************************************************)
FirstRowGroup(path) == Footer(path).row_groups[1].columns

HasColumn(path, name) ==
    \E k \in 1..Len(FirstRowGroup(path)) : FirstRowGroup(path)[k].name = name

ChunkOf(path, name) ==
    LET k == CHOOSE x \in 1..Len(FirstRowGroup(path)) :
                 FirstRowGroup(path)[x].name = name
    IN  FirstRowGroup(path)[k]

ChunkBytes(path, name) ==
    LET m == ChunkOf(path, name)
        obj == ObjectBytes(path)
    IN  [x \in 1..m.total_compressed_size |-> obj[m.data_page_offset + x]]

ExpectedColumn(path, name) ==
    Decode(ChunkBytes(path, name), Footer(path).row_groups[1].num_rows)

Decodable(path, name) == ExpectedColumn(path, name) # DecodeErr

ExpectedBlock(path, cols) ==
    [names |-> cols,
     types |-> [x \in 1..Len(cols) |-> "Vu8"],
     data |-> [x \in 1..Len(cols) |-> ExpectedColumn(path, cols[x])],
     rows |-> Footer(path).row_groups[1].num_rows]

Done == last.q.pc = "done"
Got == last.q.res
Missing(q) == {x \in 1..Len(q.cols) : ~HasColumn(q.path, q.cols[x])}

\* every load_column_bytes future: those of the running requests, and those
\* of the call that returned last
AllChildren ==
    UNION {{ch[r][j] : j \in 1..Len(ch[r])} : r \in R}
      \cup {last.cs[j] : j \in 1..Len(last.cs)}

StorageFailed ==
    \/ last.q.mst = "err"
    \/ \E j \in 1..Len(last.cs) :
          last.cs[j].st = "err" /\ last.cs[j].err = StorageError

(***************************************************************************)
(* C1. Cache hit avoids refetch: with the byte cache configured, a         *)
(* load_column_bytes call that finds the entry of its (path, column)       *)
(* issues no storage range-read and returns the very bytes returned by     *)
(* the load that first fetched and inserted that entry.                    *)
(***************************************************************************)
C1_CacheHitAvoidsRefetch ==
    cfg.bytes =>
       \A c \in AllChildren :
          c.hit =>
             /\ c.reads = 0
             /\ \E f \in firstFetch :
                   f.path = c.path /\ f.idx = c.idx[1] /\ f.bytes = c.bytes

\* a request that returned a block one column of which was a cache hit
C1_Witness ==
    /\ cfg.bytes
    /\ Done
    /\ Got.kind = "block"
    /\ \E j \in 1..Len(last.cs) : last.cs[j].hit /\ last.cs[j].reads = 0

(***************************************************************************)
(* C2. No-cache degradation: with neither cache configured a call still    *)
(* returns the block of the stored file (the one returned with the caches  *)
(* configured), after exactly one storage range-read per requested column  *)
(* and no cache access; it fails only for a storage error, a missing       *)
(* column or an undecodable chunk, never for the absence of a cache.       *)
(***************************************************************************)
C2_NoCacheDegradation ==
    (~cfg.bytes /\ ~cfg.meta /\ Done) =>
       /\ Got.kind = "block" =>
             /\ Got.block = ExpectedBlock(last.q.path, last.q.cols)
             /\ Len(last.cs) = Len(last.q.cols)
             /\ \A j \in 1..Len(last.cs) :
                   /\ last.cs[j].reads = 1
                   /\ last.cs[j].gets = 0
                   /\ last.cs[j].puts = 0
       /\ Got.kind = "err" =>
             \/ StorageFailed
             \/ Missing(last.q) # {}
             \/ \E x \in 1..Len(last.q.cols) :
                   ~Decodable(last.q.path, last.q.cols[x])

\* the second call of a behaviour without caches returned a two-column block
C2_Witness ==
    /\ ~cfg.bytes
    /\ ~cfg.meta
    /\ Done
    /\ last.q.no >= 2
    /\ Got.kind = "block"
    /\ Len(last.q.cols) = 2
    /\ \A j \in 1..Len(last.cs) : last.cs[j].reads = 1

(***************************************************************************)
(* C3 as stated: whenever a requested column matches no column chunk of    *)
(* the first row group, the call returns the missing-column error that     *)
(* names that column, and that column's load touched neither cache nor     *)
(* storage.                                                                *)
(***************************************************************************)
C3_Original ==
    (Done /\ last.q.mst = "ok") =>
       \A x \in Missing(last.q) :
          /\ Got = Err(NoSuchColumn(last.q.cols[x]))
          /\ last.cs[x].gets = 0 /\ last.cs[x].puts = 0 /\ last.cs[x].reads = 0

(***************************************************************************)
(* C3. Missing column, amended: once the metadata is loaded, a call with   *)
(* a requested column that matches no column chunk of the first row group  *)
(* returns an error and no block; the load of a missing column touches     *)
(* neither the cache nor the storage; and the error is the missing-column  *)
(* error naming the first missing column in request order, unless the      *)
(* load of a column requested before it failed, whose error is returned.   *)
(***************************************************************************)
C3_MissingColumn ==
    (Done /\ last.q.mst = "ok" /\ Missing(last.q) # {}) =>
       LET first == CHOOSE x \in Missing(last.q) :
                       \A y \in Missing(last.q) : x <= y
       IN  /\ Got.kind = "err"
           /\ Got.block = NoBlock
           /\ \A x \in Missing(last.q) :
                 /\ last.cs[x].gets = 0
                 /\ last.cs[x].puts = 0
                 /\ last.cs[x].reads = 0
           /\ \/ Got.err = NoSuchColumn(last.q.cols[first])
              \/ \E j \in 1..(first - 1) :
                    last.cs[j].st = "err" /\ Got.err = last.cs[j].err

\* a call returned "no such column zz" while the load of the column
\* requested before it was under way or done
C3_Witness ==
    /\ Done
    /\ Got = Err(NoSuchColumn("zz"))
    /\ last.q.cols = <<"a", "zz", "yy">>
    /\ last.cs[1].st \in {"ok", "dropped"}
    /\ last.cs[2].gets = 0 /\ last.cs[2].reads = 0

(***************************************************************************)
(* C4. Order preservation: the i-th column of a returned block carries     *)
(* the i-th requested name and the data of the column of that name,        *)
(* whatever the physical order of the file and the order in which the      *)
(* per-column loads completed.                                             *)
(***************************************************************************)
C4_OrderPreservation ==
    (Done /\ Got.kind = "block") =>
       /\ Got.block.names = last.q.cols
       /\ Len(Got.block.data) = Len(last.q.cols)
       /\ \A x \in 1..Len(last.q.cols) :
             Got.block.data[x] = ExpectedColumn(last.q.path, last.q.cols[x])

\* a block for <<"c", "a">> (file order a, b, c) whose second load
\* completed before its first
C4_Witness ==
    /\ Done
    /\ Got.kind = "block"
    /\ last.q.cols = <<"c", "a">>
    /\ last.q.order = <<2, 1>>

(***************************************************************************)
(* C5. Fail-fast, no partial result: a block is returned only when the     *)
(* metadata load and every per-column load succeeded and every column      *)
(* decoded, and it has all the requested columns; a failed metadata load,  *)
(* a failed per-column load or a failed decode makes the call return that  *)
(* error.                                                                  *)
(***************************************************************************)
C5_FailFast ==
    Done =>
       /\ Got.kind \in {"block", "err"}
       /\ Got.kind = "block" =>
             /\ last.q.mst = "ok"
             /\ Len(last.cs) = Len(last.q.cols)
             /\ \A j \in 1..Len(last.cs) : last.cs[j].st = "ok"
             /\ \A x \in 1..Len(last.q.cols) :
                   Decodable(last.q.path, last.q.cols[x])
             /\ Len(Got.block.data) = Len(last.q.cols)
             /\ Len(Got.block.names) = Len(last.q.cols)
       /\ last.q.mst = "err" => Got = Err(StorageError)
       /\ \A j \in 1..Len(last.cs) :
             last.cs[j].st = "err" => Got = Err(last.cs[j].err)
       /\ ( /\ last.q.mst = "ok"
            /\ \A j \in 1..Len(last.cs) : last.cs[j].st = "ok"
            /\ \E j \in 1..Len(last.cs) :
                  ~Decodable(last.q.path, last.cs[j].name) )
          => Got = Err(DecodeError)

\* a call returned an error although one of its loads had returned bytes
\* and another was still in flight
C5_Witness ==
    /\ Done
    /\ Got.kind = "err"
    /\ \E j \in 1..Len(last.cs) : last.cs[j].st \in {"ok", "dropped"}


(***************************************************************************)
(* C6. Idempotence: two calls with the same path and columns that return   *)
(* blocks return the same block (row count, column order, content),        *)
(* whatever the caches held when each of them ran.                         *)
(***************************************************************************)
C6_Idempotence ==
    \A x \in returned, y \in returned :
       (x.path = y.path /\ x.cols = y.cols) => x.block = y.block

\* a call returned the block an earlier call with the same arguments had
\* returned, after it found one of its columns in the cache and had to
\* fetch the other
C6_Witness ==
    /\ cfg.bytes
    /\ Done
    /\ Got.kind = "block"
    /\ \E x \in returned, y \in returned :
          /\ x.no < y.no
          /\ y.no = last.q.no
          /\ x.path = y.path
          /\ x.cols = y.cols
          /\ x.block = y.block
    /\ \E j \in 1..Len(last.cs) : last.cs[j].hit
    /\ \E j \in 1..Len(last.cs) : ~last.cs[j].hit

(***************************************************************************)
(* C7. Concurrent disjoint fetch: a request that ran concurrently with a   *)
(* request for other columns of the same file and returns a block gets     *)
(* exactly its own columns, each with the data of its own column chunk,    *)
(* and none with the data of a column of the other request.                *)
(***************************************************************************)
Disjoint(cols1, cols2) ==
    \A x \in 1..Len(cols1), y \in 1..Len(cols2) : cols1[x] # cols2[y]

C7_ConcurrentDisjoint ==
    (Done /\ Got.kind = "block") =>
       \A p \in last.q.peers :
          Disjoint(p.cols, last.q.cols) =>
             /\ Got.block.names = last.q.cols
             /\ \A x \in 1..Len(last.q.cols) :
                   /\ Got.block.data[x] =
                         ExpectedColumn(last.q.path, last.q.cols[x])
                   /\ \A y \in 1..Len(p.cols) :
                         HasColumn(last.q.path, p.cols[y]) =>
                            Got.block.data[x] #
                               ExpectedColumn(last.q.path, p.cols[y])

\* both of two concurrent requests for disjoint columns of one file
\* returned a block, through the shared byte cache
C7_Witness ==
    /\ cfg.bytes
    /\ Done
    /\ Got.kind = "block"
    /\ \E p \in last.q.peers :
          /\ Disjoint(p.cols, last.q.cols)
          /\ \E x \in returned : x.no = p.no

(***************************************************************************)
(* C8 as stated: a load_column_bytes call that queued for the byte cache   *)
(* while another call was reading the same (path, column), whose entry     *)
(* was not evicted since, issues no storage range-read: the one read of    *)
(* the first caller serves them all.                                       *)
(***************************************************************************)
C8_Original ==
    cfg.bytes => \A c \in AllChildren : c.behind => c.reads = 0

(***************************************************************************)
(* C8. At most one fetch per miss, amended: with the byte cache            *)
(* configured, at most one storage range-read of a key is in flight at     *)
(* any time, and none while its entry is in the cache; a caller that       *)
(* queued behind a read of its key that succeeded (and whose entry was     *)
(* not evicted since) issues no read and observes a hit.  A read that      *)
(* failed or was dropped inserted nothing, and the next caller reads       *)
(* again.                                                                  *)
(***************************************************************************)
Reading(r, j) ==
    /\ j \in 1..Len(ch[r])
    /\ ch[r][j].st = "reading"

C8_AtMostOneFetch ==
    cfg.bytes =>
       /\ \A c \in AllChildren :
             c.behindOk => (c.reads = 0 /\ (c.st = "ok" => c.hit))
       /\ \A r1 \in R, r2 \in R, j1 \in 1..MaxCols, j2 \in 1..MaxCols :
             ( /\ Reading(r1, j1)
               /\ Reading(r2, j2)
               /\ ch[r1][j1].path = ch[r2][j2].path
               /\ ch[r1][j1].idx = ch[r2][j2].idx )
             => (r1 = r2 /\ j1 = j2)
       /\ \A r \in R, j \in 1..MaxCols :
             Reading(r, j) =>
                ~CacheHas(byteCache,
                          ByteCacheKey(ch[r][j].path, ch[r][j].idx[1]))

\* a caller that had queued behind the read of its own key found the
\* entry, and read nothing
C8_Witness ==
    /\ cfg.bytes
    /\ \E c \in AllChildren :
          c.behindOk /\ c.st = "ok" /\ c.hit /\ c.reads = 0

(***************************************************************************)
(* C9 as stated: for a file whose metadata has more than one row group     *)
(* the call returns an error, never a block built from the first row       *)
(* group.                                                                  *)
(***************************************************************************)
C9_MultiRowGroupFailsFast ==
    (Done /\ Len(Footer(last.q.path).row_groups) > 1) => Got.kind = "err"

(***************************************************************************)
(* C10. Eviction: the byte cache never holds more than ByteCap entries;    *)
(* it holds exactly the ByteCap most recently accessed keys (a get that    *)
(* hit and a put both count as an access), so that a sequence of loads     *)
(* over more distinct keys evicts the least recently accessed one; and a   *)
(* load of an evicted key is a miss that reads the chunk from storage      *)
(* and inserts it again.                                                   *)
(***************************************************************************)
EntryKey(pair) == pair.path \o "-" \o ToString(pair.idx)

C10_Eviction ==
    cfg.bytes =>
       /\ Len(byteCache) <= ByteCap
       /\ [k \in 1..Len(byteCache) |-> byteCache[k].k]
             = [k \in 1..Len(TopCap(recency)) |-> EntryKey(TopCap(recency)[k])]
       /\ \A c \in AllChildren :
             c.refetch =>
                /\ ~c.hit
                /\ c.reads = 1
                /\ c.st = "ok" =>
                      (c.puts = 1 /\ c.bytes = ChunkBytes(c.path, c.name))

\* more keys were loaded than the cache holds, and the call that returned
\* last fetched a key that had been evicted and put it back
C10_Witness ==
    /\ cfg.bytes
    /\ Done
    /\ Len(recency) > ByteCap
    /\ \E j \in 1..Len(last.cs) :
          /\ last.cs[j].refetch
          /\ last.cs[j].st = "ok"
          /\ last.cs[j].reads = 1
          /\ CacheHas(byteCache,
                      EntryKey([path |-> last.cs[j].path,
                                idx |-> last.cs[j].idx[1]]))

(***************************************************************************)
(* C11. Block shape: a returned block has exactly one field per requested  *)
(* column name, in request order and each of the byte-string type, one     *)
(* data column per field, and as many rows (in the block and in each of    *)
(* its columns) as the first row group of the file has.                    *)
(***************************************************************************)
C11_BlockShape ==
    (Done /\ Got.kind = "block") =>
       /\ Len(Got.block.names) = Len(last.q.cols)
       /\ Len(Got.block.types) = Len(last.q.cols)
       /\ Len(Got.block.data) = Len(last.q.cols)
       /\ \A x \in 1..Len(last.q.cols) :
             /\ Got.block.names[x] = last.q.cols[x]
             /\ Got.block.types[x] = "Vu8"
             /\ Len(Got.block.data[x]) = Got.block.rows
       /\ Got.block.rows = Footer(last.q.path).row_groups[1].num_rows

\* a block of two columns and of the two rows of the first row group
C11_Witness ==
    /\ Done
    /\ Got.kind = "block"
    /\ Len(last.q.cols) = 2
    /\ Len(Got.block.names) = 2
    /\ Got.block.rows = 2
    /\ Len(Got.block.data[2]) = 2

(***************************************************************************)
(* C12. Cache-wide exclusivity: with the byte cache configured, a          *)
(* load_column_bytes call that is between its cache check and its insert   *)
(* (its storage read is in progress) holds the write guard of the cache,   *)
(* so at most one column range-read is in flight at any time; and while    *)
(* it is there no other call, of its own request or of another, for the    *)
(* same or for another key, performs a get or a put or starts a storage    *)
(* read, and the cache content does not change.                            *)
(***************************************************************************)
Counters(c) == <<c.gets, c.puts, c.reads>>

\* the future j2 of slot r2 after the step, wherever the step left it: in
\* its slot, or, when its request returned in the step, in last (dropped
\* with an abandoned request, it did nothing)
After(r2, j2) ==
    IF ~(Active(rq[r2]) /\ ~Active(rq[r2])') THEN ch'[r2][j2]
    ELSE IF last'.q.no = rq[r2].no THEN last'.cs[j2]
    ELSE ch[r2][j2]

C12_Holder ==
    cfg.bytes =>
       \A r \in R, j \in 1..MaxCols :
          Reading(r, j) => byteLock.holder = <<r, j>>

C12_Step ==
    cfg.bytes =>
       \A r \in R, j \in 1..MaxCols :
          Reading(r, j) =>
             /\ Reading(r, j)' => byteCache' = byteCache
             /\ \A r2 \in R, j2 \in 1..MaxCols :
                   (<<r2, j2>> # <<r, j>> /\ j2 \in 1..Len(ch[r2])) =>
                      Counters(After(r2, j2)) = Counters(ch[r2][j2])
             /\ \A r2 \in R, j2 \in 1..MaxCols :
                   (j2 \in 1..Len(ch'[r2]) /\ ch[r2] = <<>>) =>
                      Counters(ch'[r2][j2]) = <<0, 0, 0>>

C12_CacheWideExclusivity == [](C12_Holder) /\ [][C12_Step]_vars

\* a read is in flight while a column of the same request and a column of
\* another request, both for other keys, wait for the cache
C12_Witness ==
    /\ cfg.bytes
    /\ \E r \in R, r2 \in R, j \in 1..MaxCols, j1 \in 1..MaxCols,
           j2 \in 1..MaxCols :
          /\ r2 # r
          /\ Reading(r, j) /\ ch[r][j].io = "pending"
          /\ j1 \in 1..Len(ch[r]) /\ ch[r][j1].st = "wait"
          /\ j2 \in 1..Len(ch[r2]) /\ ch[r2][j2].st = "wait"
          /\ ch[r][j1].idx # ch[r][j].idx
          /\ ch[r2][j2].idx # ch[r][j].idx

(***************************************************************************)
(* C13 as stated: with the metadata cache configured, a request that       *)
(* queued for the cache while another request was parsing the footer of    *)
(* the same path, whose entry was not evicted since, parses nothing: the   *)
(* concurrent requests cause one footer parse.                             *)
(***************************************************************************)
AllRequests == {rq[r] : r \in R} \cup {last.q}

C13_Original ==
    cfg.meta => \A q \in AllRequests : q.mbehind => q.parses = 0

(***************************************************************************)
(* C13. Metadata loaded once per request and cached per path, amended:     *)
(* a call parses the footer at most once, whatever the number of its       *)
(* columns, and not at all when it finds the entry of its path in the      *)
(* metadata cache; with the metadata cache configured at most one footer   *)
(* parse is in flight at any time, and none of a path whose entry is in    *)
(* the cache; a request that queued behind a parse of its path that        *)
(* succeeded (and whose entry was not evicted since) parses nothing and    *)
(* observes a hit.  A parse that failed or was dropped inserted nothing,   *)
(* and the next request parses again.                                      *)
(***************************************************************************)
C13_MetadataOnce ==
    /\ \A q \in AllRequests :
          /\ q.parses <= 1
          /\ q.metaHit => q.parses = 0
          /\ ~cfg.meta => ~q.metaHit
    /\ cfg.meta =>
          /\ \A q \in AllRequests :
                q.mbehindOk => (q.parses = 0 /\ (q.mst = "ok" => q.metaHit))
          /\ \A r1 \in R, r2 \in R :
                (rq[r1].mst = "reading" /\ rq[r2].mst = "reading") => r1 = r2
          /\ \A r \in R :
                rq[r].mst = "reading" =>
                   ~CacheHas(metaCache, MetaCacheKey(rq[r].path))

\* a request for two columns that had queued behind the parse of its own
\* path found the entry, parsed nothing, and returned its block
C13_Witness ==
    /\ cfg.meta
    /\ Done
    /\ Got.kind = "block"
    /\ Len(last.q.cols) = 2
    /\ last.q.mbehindOk
    /\ last.q.metaHit
    /\ last.q.parses = 0

(***************************************************************************)
(* C14. Cache content: in every reachable state an entry of the byte       *)
(* cache stored under the key of (path, index) holds the bytes of column   *)
(* chunk number index of the first row group of the file at path; two      *)
(* distinct (path, index) pairs never have the same key; and so a load     *)
(* that returned bytes returned those of its own file and column.          *)
(***************************************************************************)
Paths == {c.path : c \in Calls}
KeyPaths == Paths \cup {"p-1", "p1", "p-", "p-1-1"}

BytesOfChunk(path, idx) ==
    LET m == FirstRowGroup(path)[idx + 1]
        obj == ObjectBytes(path)
    IN  [x \in 1..m.total_compressed_size |-> obj[m.data_page_offset + x]]

\* the keys of distinct (path, index) pairs differ
KeysDistinct ==
    \A p1 \in KeyPaths, p2 \in KeyPaths,
       i1 \in 0..MaxKeyIdx, i2 \in 0..MaxKeyIdx :
       ByteCacheKey(p1, i1) = ByteCacheKey(p2, i2) => (p1 = p2 /\ i1 = i2)

\* the key of each (path, index) pair whose chunk the files have
ChunkKeys ==
    {[k |-> ByteCacheKey(path, idx), path |-> path, idx |-> idx] :
        path \in Paths, idx \in 0..MaxKeyIdx}

C14_CacheContent ==
    /\ \A k \in 1..Len(byteCache) :
          /\ \E e \in ChunkKeys : byteCache[k].k = e.k
          /\ \A e \in ChunkKeys :
                byteCache[k].k = e.k =>
                   /\ e.idx < Len(FirstRowGroup(e.path))
                   /\ byteCache[k].v = BytesOfChunk(e.path, e.idx)
    /\ KeysDistinct
    /\ \A c \in AllChildren :
          c.st = "ok" =>
             /\ c.bytes = ChunkBytes(c.path, c.name)
             /\ c.bytes = BytesOfChunk(c.path, c.idx[1])

\* the cache holds the chunks of ordinal 0 of two files, each with its
\* own bytes
C14_Witness ==
    /\ cfg.bytes
    /\ CacheHas(byteCache, ByteCacheKey("p", 0))
    /\ CacheHas(byteCache, ByteCacheKey("q", 0))
    /\ CacheVal(byteCache, ByteCacheKey("p", 0))
          # CacheVal(byteCache, ByteCacheKey("q", 0))

(***************************************************************************)
(* C15. Eviction does not invalidate handed-out buffers: the bytes a load  *)
(* returned to its request, and the metadata read_index_meta returned to   *)
(* it, stay those of the column chunk and of the footer until the request  *)
(* has decoded them, whatever has been evicted from or replaced in the     *)
(* caches in the meantime; the result of the request is the decode of      *)
(* the buffers handed out.                                                 *)
(***************************************************************************)
Handed(cs) == [j \in 1..Len(cs) |-> [bytes |-> cs[j].bytes, idx |-> cs[j].idx[1]]]

C15_HandlesSurviveEviction ==
    /\ \A r \in R, j \in 1..MaxCols :
          (j \in 1..Len(ch[r]) /\ ch[r][j].st = "ok") =>
             ch[r][j].bytes = ChunkBytes(ch[r][j].path, ch[r][j].name)
    /\ \A r \in R :
          rq[r].pc = "cols" => rq[r].meta = <<Footer(rq[r].path)>>
    /\ ( /\ Done
         /\ last.q.mst = "ok"
         /\ Len(last.cs) = Len(last.q.cols)
         /\ \A j \in 1..Len(last.cs) : last.cs[j].st = "ok" )
       => /\ last.q.meta = <<Footer(last.q.path)>>
          /\ \A j \in 1..Len(last.cs) :
                last.cs[j].bytes = ChunkBytes(last.cs[j].path, last.cs[j].name)
          /\ Got = DecodeBlock(last.q.cols, Handed(last.cs), Footer(last.q.path))

\* a request returned the block of its two columns although, before it
\* decoded, the entry of one of them had been evicted from the byte cache
\* (by a call that returned before it did)
C15_Witness ==
    /\ cfg.bytes
    /\ Done
    /\ Got.kind = "block"
    /\ Len(last.cs) = 2
    /\ last.q.no = 2
    /\ \E x \in returned : x.no = 1
    /\ \E j \in 1..Len(last.cs) :
          /\ last.cs[j].gets = 1
          /\ ~CacheHas(byteCache,
                       ByteCacheKey(last.cs[j].path, last.cs[j].idx[1]))

(***************************************************************************)
(* C16. No rollback of cache state: the entries a call put into a cache    *)
(* before it failed or was abandoned stay in the cache, with their         *)
(* content, until the cache's capacity evicts them; and a later load of    *)
(* such a key, or a later call for such a path, finds the entry and        *)
(* reads nothing from storage.                                             *)
(***************************************************************************)
PairKey(pair) == ByteCacheKey(pair.path, pair.idx)

C16_NoRollback ==
    /\ cfg.bytes =>
          \A x \in hist.orphans :
             /\ CacheHas(byteCache, PairKey(x))
             /\ CacheVal(byteCache, PairKey(x)) = BytesOfChunk(x.path, x.idx)
    /\ cfg.meta =>
          \A x \in hist.morphans :
             /\ CacheHas(metaCache, MetaCacheKey(x))
             /\ CacheVal(metaCache, MetaCacheKey(x)) = Footer(x)
    /\ \A c \in AllChildren :
          c.orphanHit =>
             /\ c.hit
             /\ c.reads = 0
             /\ c.bytes = ChunkBytes(c.path, c.name)
    /\ \A q \in AllRequests :
          q.morphanHit => (q.metaHit /\ q.parses = 0)

\* a call returned a block after it had found the metadata and the bytes
\* of a column that a call which then failed or was abandoned had put
C16_Witness ==
    /\ Done
    /\ Got.kind = "block"
    /\ last.q.morphanHit
    /\ last.q.parses = 0
    /\ \E j \in 1..Len(last.cs) :
          last.cs[j].orphanHit /\ last.cs[j].hit /\ last.cs[j].reads = 0

(***************************************************************************)
(* C17. A failed or cancelled fetch leaves the cache unchanged: the step   *)
(* in which the storage read of a miss returns an error, or in which a     *)
(* load is dropped in the middle of its read, changes no cache; no entry   *)
(* is there for that key until a later load puts one; and a later load of  *)
(* the key is again a miss that issues a new storage read.                 *)
(***************************************************************************)
C17_NoEntry ==
    /\ cfg.bytes => \A x \in hist.lost : ~CacheHas(byteCache, PairKey(x))
    /\ cfg.meta => \A x \in hist.mlost : ~CacheHas(metaCache, MetaCacheKey(x))
    /\ \A c \in AllChildren : c.afterLost => (~c.hit /\ c.reads = 1)
    /\ \A q \in AllRequests : q.mafterLost => (~q.metaHit /\ q.parses = 1)

C17_Step ==
    /\ hist'.lost \ hist.lost # {} => byteCache' = byteCache
    /\ hist'.mlost \ hist.mlost # {} => metaCache' = metaCache

C17_FailedFetchLeavesCache == [](C17_NoEntry) /\ [][C17_Step]_vars

\* after a read of its key had failed or been dropped, a load missed, read
\* the chunk again and returned it
C17_Witness ==
    /\ cfg.bytes
    /\ \E c \in AllChildren :
          c.afterLost /\ ~c.hit /\ c.reads = 1 /\ c.st = "ok" /\ c.puts = 1

(***************************************************************************)
(* C18. Deadlock freedom and lock release: if every storage operation      *)
(* eventually returns and woken futures are polled, every call that was    *)
(* made eventually ends (it returns a block or an error, unless its        *)
(* caller abandons it), whatever the interleaving; the write guard of a    *)
(* cache is held or waited for only by a load that is at its cache check   *)
(* or in its read, so it is released on every exit path (hit, miss,        *)
(* storage error, load dropped by fail-fast or with its call), both locks  *)
(* being free when no call is running; and no call holds the lock of the   *)
(* metadata cache and the lock of the byte cache at the same time.         *)
(***************************************************************************)
ByteLockUser(w, states) ==
    /\ Len(w) = 2
    /\ w[1] \in R
    /\ rq[w[1]].pc = "cols"
    /\ w[2] \in 1..Len(ch[w[1]])
    /\ ch[w[1]][w[2]].st \in states

MetaLockUser(w, states) ==
    /\ Len(w) = 1
    /\ w[1] \in R
    /\ rq[w[1]].pc = "meta"
    /\ rq[w[1]].mst \in states

C18_Locks ==
    /\ byteLock.holder # None => ByteLockUser(byteLock.holder, {"wait", "reading"})
    /\ \A k \in 1..Len(byteLock.queue) :
          /\ ByteLockUser(byteLock.queue[k], {"wait"})
          /\ byteLock.queue[k] # byteLock.holder
          /\ byteLock.holder # None
    /\ metaLock.holder # None => MetaLockUser(metaLock.holder, {"wait", "reading"})
    /\ \A k \in 1..Len(metaLock.queue) :
          /\ MetaLockUser(metaLock.queue[k], {"wait"})
          /\ metaLock.queue[k] # metaLock.holder
          /\ metaLock.holder # None
    /\ \A r \in R, j \in 1..MaxCols :
          (j \in 1..Len(ch[r]) /\ ch[r][j].st = "wait") =>
             (byteLock.holder = <<r, j>> \/ InSeq(<<r, j>>, byteLock.queue))
    /\ \A r \in R :
          rq[r].mst = "wait" =>
             (metaLock.holder = <<r>> \/ InSeq(<<r>>, metaLock.queue))
    /\ ~cfg.bytes => byteLock = FreeLock
    /\ ~cfg.meta => metaLock = FreeLock
    /\ (\A r \in R : ~Active(rq[r])) =>
          (byteLock = FreeLock /\ metaLock = FreeLock)
    /\ \A r \in R :
          ~( /\ metaLock.holder = <<r>>
             /\ byteLock.holder # None
             /\ byteLock.holder[1] = r )

C18_DeadlockFreedom ==
    /\ [](C18_Locks)
    /\ \A r \in R : Active(rq[r]) ~> ~Active(rq[r])

\* a call returned an error while one of its loads was in the middle of
\* its read, holding the write guard, and another call was running; by
\* now no call is running and both locks are free
C18_Witness ==
    /\ cfg.bytes
    /\ cfg.meta
    /\ Done
    /\ Got.kind = "err"
    /\ last.q.peers # {}
    /\ \E j \in 1..Len(last.cs) :
          last.cs[j].st = "dropped" /\ last.cs[j].reads = 1
    /\ \A r \in R : ~Active(rq[r])
    /\ byteLock = FreeLock
    /\ metaLock = FreeLock
    /\ calls = MaxCalls

(***************************************************************************)
(* C19. Integer division by zero is an error, never a value: for each of   *)
(* the four operand shapes, ArithmeticIntDiv::arithmetic returns the       *)
(* BadArguments error "Division by zero" and no column when an element of  *)
(* the divisor is zero, and otherwise a column and no error (an array as   *)
(* long as the operands, or a constant of the size of the left one); a     *)
(* constant divisor that does not convert to the divisor type is not a     *)
(* zero: the result is the one of the division by the constant one.        *)
(***************************************************************************)
DivisorHasZero ==
    LET right == arith.columns[2]
    IN  IF right.kind = "Array"
        THEN \E i \in 1..Len(right.values) : right.values[i] = 0
        ELSE right.value.ok /\ right.value.v = 0

C19_DivisionByZero ==
    arith.result # NoOutcome =>
       LET left == arith.columns[1]
           right == arith.columns[2]
           got == arith.result
       IN  /\ DivisorHasZero =>
                (got = ErrColumn(DivisionByZero) /\ got.column = NoColumn)
           /\ ~DivisorHasZero =>
                /\ got.kind = "column"
                /\ got.err = NoError
                /\ (left.kind = "Array" \/ right.kind = "Array") =>
                      /\ got.column.kind = "Array"
                      /\ Len(got.column.values) = left.size
                /\ (left.kind = "Constant" /\ right.kind = "Constant") =>
                      /\ got.column.kind = "Constant"
                      /\ got.column.size = left.size
                      /\ got.column.value.ok
           /\ (right.kind = "Constant" /\ ~right.value.ok) =>
                /\ got.kind = "column"
                /\ got = Arithmetic(<<left, Constant(Value(1), right.size)>>)

\* an array was divided by an array whose last element only is zero, and
\* the result is the error
C19_Witness ==
    /\ arith.columns[1].kind = "Array"
    /\ arith.columns[2].kind = "Array"
    /\ arith.columns[2].values = <<2, 0>>
    /\ arith.columns[1].values = <<-3, 1>>
    /\ arith.result = ErrColumn(DivisionByZero)

====
